---- MODULE Spec2Model ----
(***************************************************************************)
(* Yomitoku OCR Web UI (src/app.py): one Streamlit session.  Every user    *)
(* interaction reruns main(); the Execute button runs run_yomitoku, reads  *)
(* the produced file and releases the temporary artifacts.                 *)
(*                                                                         *)
(* Paths under TEMP_DIR are modelled by what distinguishes them:           *)
(*   input artifact  TEMP_DIR/<timestamp>_<name>   as [ts, name]           *)
(*   output directory TEMP_DIR/output_<timestamp>  as its timestamp        *)
(* A timestamp is the value datetime.now().strftime("%Y%m%d_%H%M%S")       *)
(* yields; `now` counts the distinct values the clock has shown.           *)
(* An optional value (Optional[...] / None) is a set with at most one      *)
(* element: {} is None.                                                    *)
(***************************************************************************)
EXTENDS Integers, Sequences, FiniteSets, TLC

VARIABLES
    now,        \* the clock, in timestamp values
    tempDir,    \* TEMP_DIR exists
    inputs,     \* the input artifacts on disk: a set of [ts, name]
    dirs,       \* the output directories on disk: timestamp -> None, or Some(the
                \* directory's files, a set of [name, bytes])
    ss,         \* st.session_state
    pc,         \* position of the script run
    runs,       \* script runs so far
    progress,   \* values the progress callback received in this handler, in order
    child,      \* the engine process of this run_yomitoku call
    alloc,      \* run_yomitoku's local output_dir
    result,     \* subprocess.run's CompletedProcess: returncode, stderr
    ret,        \* the tuple run_yomitoku returned
    outcome,    \* how far this handler got: "none", "read" (the result is in
                \* memory), and how it ended: "success", "read_failed", "failed"
    warned,     \* st.warning was shown by cleanup_temp_files in this handler
    resultFormat \* the output_format passed to the run_yomitoku call whose
                \* output session_state.processed_result holds

vars == <<now, tempDir, inputs, dirs, ss, pc, runs, progress, child, alloc,
          result, ret, outcome, warned, resultFormat>>

\* ------------------------------------------------------------------ bounds

MaxClock == 1
MaxRuns == 2

\* ------------------------------------------------------- values of the model

None == {}
Some(x) == {x}
The(s) == CHOOSE x \in s : TRUE

Timestamps == 0..MaxClock

\* File names are sequences of characters.
SUPPORTED_FORMATS ==
    { <<"p","n","g">>, <<"j","p","g">>, <<"j","p","e","g">>,
      <<"p","d","f">>, <<"t","i","f","f">>, <<"b","m","p">> }

OUTPUT_FORMATS == {"md", "json", "html", "csv"}

\* The formats the user selects in the model; the code treats every format alike.
SelectedFormats == {"md", "json"}

\* Names a user uploads.
UploadNames == { <<"p",".","J","P","G">>, <<"w",".","x","y","z">> }

PastedName == <<"p","a","s","t","e","d",".","p","n","g">>
PastedFilename == <<"p","a","s","t","e","d","_","i","m","a","g","e",".","p","n","g">>

\* Files the engine may leave in its output directory: [stem, ext].
Stems == <<"a", "b">>
OutNames == { [stem |-> "a", ext |-> "md"], [stem |-> "b", ext |-> "md"] }

\* File contents are byte sequences; xFF is a byte no UTF-8 text contains.
Contents == { <<"A">>, <<"CR", "LF">>, <<"xFF">> }

AMd == [stem |-> "a", ext |-> "md"]
BMd == [stem |-> "b", ext |-> "md"]

\* What one engine run writes into the directory given with -o: nothing, one
\* file (plain text, text with a CR LF line end, bytes that are not UTF-8), or
\* two files.
EngineOutputs ==
    { <<>> } \cup { (AMd :> c) : c \in Contents }
             \cup { (AMd :> <<"A">>) @@ (BMd :> <<"CR", "LF">>) }

\* What an engine that fails or is killed has written: nothing, or one file.
PartialOutputs == { <<>>, (AMd :> <<"A">>) }

\* How the engine exits: returncode, captured stderr, and what it has written.
ExitStatuses ==
    { [returncode |-> 0, stderr |-> ""],
      [returncode |-> 1, stderr |-> ""],
      [returncode |-> 1, stderr |-> "parse error"] }

EngineRuns ==
    { <<st, out>> : st \in {x \in ExitStatuses : x.returncode = 0}, out \in EngineOutputs }
        \cup { <<st, out>> : st \in {x \in ExitStatuses : x.returncode # 0},
                              out \in PartialOutputs }

\* ---------------------------------------------------------- pure functions

\* str.lower() on the characters that occur
LowerChar(c) ==
    CASE c = "J" -> "j" [] c = "P" -> "p" [] c = "G" -> "g" [] OTHER -> c

Lower(s) == [i \in 1..Len(s) |-> LowerChar(s[i])]

\* Path.suffix: from the last dot of the name, "" when there is none or the
\* only dot leads the name
PathSuffix(name) ==
    LET dots == {i \in 1..Len(name) : name[i] = "."}
    IN  IF dots = {} THEN <<>>
        ELSE LET last == CHOOSE i \in dots : \A j \in dots : j <= i
             IN  IF last = 1 THEN <<>> ELSE SubSeq(name, last, Len(name))

RECURSIVE LStripDot(_)
LStripDot(s) == IF s # <<>> /\ Head(s) = "." THEN LStripDot(Tail(s)) ELSE s

\* the last component of TEMP_DIR / f"{timestamp}_{name}"; the timestamp holds
\* digits and "_" only and is written as one character
FileName(path) == <<"0", "_">> \o path.name

validate_file_format(path) ==
    LStripDot(Lower(PathSuffix(FileName(path)))) \in SUPPORTED_FORMATS

\* codecs utf-8 decode of the bytes that occur
DecodeOk(bytes) == \A i \in 1..Len(bytes) : bytes[i] # "xFF"

\* text-mode read with newline=None: "\r\n" and "\r" become "\n"
RECURSIVE UniversalNewlines(_)
UniversalNewlines(s) ==
    IF s = <<>> THEN <<>>
    ELSE IF Head(s) = "CR"
         THEN IF Len(s) >= 2 /\ s[2] = "LF"
              THEN <<"LF">> \o UniversalNewlines(Tail(Tail(s)))
              ELSE <<"LF">> \o UniversalNewlines(Tail(s))
         ELSE <<Head(s)>> \o UniversalNewlines(Tail(s))

ReadTextNoTranslation(bytes) == bytes

ReadText(bytes) == UniversalNewlines(bytes)

GlobEveryFile(files, fmt) == {e.name : e \in files}

\* output_dir.glob(f"*.{output_format}"): the names in the directory that match
Glob(files, fmt) == {e.name : e \in {x \in files : x.name.ext = fmt}}

\* the engine writes `out` into a directory holding `files`
WriteFiles(files, out) ==
    {e \in files : e.name \notin DOMAIN out}
        \cup {[name |-> n, bytes |-> out[n]] : n \in DOMAIN out}

BytesOf(files, n) == (CHOOSE e \in files : e.name = n).bytes

EngineErrorMessageStderrOnly(stderr) == stderr

\* result.stderr or "Unknown error occurred"
EngineErrorMessage(stderr) ==
    IF stderr # "" THEN stderr ELSE "Unknown error occurred"

Failure(msg) ==
    [success |-> FALSE, output_file |-> None, output_dir |-> None,
     error_msg |-> Some(msg)]

Success(file, dir) ==
    [success |-> TRUE, output_file |-> Some(file), output_dir |-> Some(dir),
     error_msg |-> None]

Job0 ==
    [progress |-> <<>>, child |-> "none", alloc |-> None, result |-> None,
     ret |-> None, outcome |-> "none", warned |-> FALSE]

\* ------------------------------------------------------------------- Init

Init ==
    /\ now = 0
    /\ tempDir = FALSE
    /\ inputs = {}
    /\ dirs = [t \in Timestamps |-> None]
    /\ ss = [processed_result |-> None, input_image_path |-> None,
             original_filename |-> None, output_format |-> "md"]
    /\ pc = "idle"
    /\ runs = 0
    /\ progress = <<>>
    /\ child = "none"
    /\ alloc = None
    /\ result = None
    /\ ret = None
    /\ outcome = "none"
    /\ warned = FALSE
    /\ resultFormat = None

\* some path, on disk or held by the program, carries the timestamp t
TimestampUsed(t) ==
    \/ \E p \in inputs \cup ss.input_image_path : p.ts = t
    \/ dirs[t] # None
    \/ alloc = Some(t)

\* The clock shows a later timestamp.  The clock is read when a script run
\* starts and when run_yomitoku starts, and time passes while the engine runs;
\* a tick during the other steps is the same as one right after them.  Only
\* the timestamps that were read and put into a path are counted.
Tick ==
    /\ pc \in {"idle", "done", "run", "wait"}
    /\ TimestampUsed(now)
    /\ now < MaxClock
    /\ now' = now + 1
    /\ UNCHANGED <<tempDir, inputs, dirs, ss, pc, runs, progress, child, alloc,
                   result, ret, outcome, warned, resultFormat>>

\* ------------------------------------------------------------ main(), rerun

\* save_uploaded_file / save_pasted_image: the path written, None when the
\* write raised
SavedPath(name, saveOk) == IF saveOk THEN Some([ts |-> now, name |-> name]) ELSE None

can_execute_any_format(path, files) ==
    /\ path # None
    /\ The(path) \in files

\* lines 229-233
can_execute(path, files) ==
    /\ path # None
    /\ The(path) \in files
    /\ validate_file_format(The(path))

\* One run of the script from the top to the Execute button (lines 146-235).
\* upload: the file the uploader holds; pasted: the paste button holds an
\* image; fmt: the radio's format; click: the Execute button was pressed.
Rerun(upload, pasted, saveOk, fmt, click) ==
    /\ pc \in {"idle", "done"}
    /\ LET current_image_path ==
               IF upload # None THEN SavedPath(The(upload), saveOk)
               ELSE IF pasted THEN SavedPath(PastedName, saveOk)
               ELSE None
           current_filename ==
               IF upload # None THEN upload ELSE Some(PastedFilename)
           path == IF current_image_path # None THEN current_image_path
                   ELSE ss.input_image_path
           files == inputs \cup current_image_path
       IN  /\ inputs' = files
           /\ tempDir' = (tempDir \/ upload # None \/ pasted)
           /\ ss' = [ss EXCEPT
                       !.input_image_path = path,
                       !.original_filename =
                           IF current_image_path # None THEN current_filename
                           ELSE @,
                       !.output_format = fmt]
           /\ pc' = IF click /\ can_execute(path, files) THEN "run" ELSE "idle"
    /\ runs < MaxRuns
    /\ runs' = runs + 1
    /\ progress' = Job0.progress
    /\ child' = Job0.child
    /\ alloc' = Job0.alloc
    /\ result' = Job0.result
    /\ ret' = Job0.ret
    /\ outcome' = Job0.outcome
    /\ warned' = Job0.warned
    /\ UNCHANGED <<now, dirs, resultFormat>>

\* ----------------------------------------------------------- run_yomitoku

\* output_dir.mkdir(exist_ok=True) on output_<now>
Mkdir(t) == [dirs EXCEPT ![t] = IF @ = None THEN Some({}) ELSE @]

\* lines 89-108: allocate the output directory, report 0.2, spawn the engine
StartEngine ==
    /\ pc = "run"
    /\ tempDir' = TRUE
    /\ alloc' = Some(now)
    /\ dirs' = Mkdir(now)
    /\ progress' = Append(progress, 2)
    /\ child' = "running"
    /\ pc' = "wait"
    /\ UNCHANGED <<now, inputs, ss, runs, result, ret, outcome, warned, resultFormat>>

\* lines 89-108, 134-135: subprocess.run raises before a child exists
SpawnFails ==
    /\ pc = "run"
    /\ tempDir' = TRUE
    /\ alloc' = Some(now)
    /\ dirs' = Mkdir(now)
    /\ progress' = Append(progress, 2)
    /\ ret' = Some(Failure("Error: spawn failed"))
    /\ pc' = "returned"
    /\ UNCHANGED <<now, inputs, ss, runs, child, result, outcome, warned, resultFormat>>

\* the output directory once the engine has written `out`
EngineWrote(out) ==
    [dirs EXCEPT ![The(alloc)] = Some(WriteFiles(The(@), out))]

ProgressAfterExitRepeated(r, output_files) ==
    IF r.returncode # 0 \/ output_files = {} THEN <<8>> ELSE <<8, 8>>

\* lines 115-128: the values the progress callback receives after the child
\* exited
ProgressAfterExit(r, output_files) ==
    IF r.returncode # 0 \/ output_files = {} THEN <<8>> ELSE <<8, 10>>

ReturnsAfterExitKeepsDir(r, output_files, output_dir) ==
    IF r.returncode # 0
    THEN {Failure(EngineErrorMessage(r.stderr))}
    ELSE IF output_files = {}
    THEN {[Failure("No output file generated") EXCEPT !.output_dir = Some(output_dir)]}
    ELSE {Success(first, output_dir) : first \in output_files}

\* lines 118-130: the tuples run_yomitoku may return after the child exited;
\* output_files[0] is whichever match the directory listing yields first
ReturnsAfterExit(r, output_files, output_dir) ==
    IF r.returncode # 0
    THEN {Failure(EngineErrorMessage(r.stderr))}
    ELSE IF output_files = {}
    THEN {Failure("No output file generated")}
    ELSE {Success(first, output_dir) : first \in output_files}

\* lines 108-130: the child exits within the time budget, having written
\* `out`; run_yomitoku reports progress, looks for the output and returns
EngineExits(status, out) ==
    /\ pc = "wait"
    /\ child = "running"
    /\ dirs' = EngineWrote(out)
    /\ child' = "exited"
    /\ result' = Some(status)
    /\ LET output_files ==
               Glob(WriteFiles(The(dirs[The(alloc)]), out), ss.output_format)
       IN  /\ progress' = progress \o ProgressAfterExit(status, output_files)
           /\ \E r \in ReturnsAfterExit(status, output_files, The(alloc)) :
                  ret' = Some(r)
    /\ pc' = "returned"
    /\ UNCHANGED <<now, tempDir, inputs, ss, runs, alloc, outcome, warned, resultFormat>>

TimeoutLeavesChild == "running"

\* subprocess.run with timeout=300 (lines 108-113): the time budget runs out,
\* the child is killed and waited for, TimeoutExpired is raised
KillOnTimeout == "killed"

\* lines 108-113, 132-133
Timeout(out) ==
    /\ pc = "wait"
    /\ child = "running"
    /\ now > The(alloc)
    /\ dirs' = EngineWrote(out)
    /\ child' = KillOnTimeout
    /\ ret' = Some(Failure("Processing timeout (exceeded 5 minutes)"))
    /\ pc' = "returned"
    /\ UNCHANGED <<now, tempDir, inputs, ss, runs, progress, alloc, result, outcome, warned, resultFormat>>

\* ------------------------------------------------- main(), Execute handler

\* st.session_state.input_image_path while the handler runs
JobPath == The(ss.input_image_path)

ReleaseBeforeRead ==
    /\ pc = "returned"
    /\ The(ret).success
    /\ inputs' = inputs \ ss.input_image_path
    /\ pc' = "cleanup_output"
    /\ UNCHANGED <<now, tempDir, dirs, ss, runs, progress, child, alloc, result, ret,
                   outcome, warned, resultFormat>>

\* lines 251-256: the output file is read and stored
ReadResult ==
    /\ pc = "returned"
    /\ The(ret).success
    /\ LET r == The(ret)
           bytes == BytesOf(The(dirs[The(r.output_dir)]), The(r.output_file))
       IN  /\ DecodeOk(bytes)
           /\ ss' = [ss EXCEPT !.processed_result = Some(ReadText(bytes))]
    /\ outcome' = "read"
    /\ pc' = "cleanup_input"
    /\ UNCHANGED <<now, tempDir, inputs, dirs, runs, progress, child, alloc, result,
                   ret, warned>>
    /\ resultFormat' = Some(ss.output_format)

\* lines 253-255, 263-265: reading raises
ReadFails ==
    /\ pc = "returned"
    /\ The(ret).success
    /\ LET r == The(ret)
           bytes == BytesOf(The(dirs[The(r.output_dir)]), The(r.output_file))
       IN  ~DecodeOk(bytes)
    /\ ss' = [ss EXCEPT !.processed_result = None]
    /\ outcome' = "read_failed"
    /\ pc' = "done"
    /\ UNCHANGED <<now, tempDir, inputs, dirs, runs, progress, child, alloc, result,
                   ret, warned>>
    /\ resultFormat' = None

HandleFailureKeepsResult ==
    /\ pc = "returned"
    /\ ~The(ret).success
    /\ outcome' = "failed"
    /\ pc' = "done"
    /\ UNCHANGED <<now, tempDir, inputs, dirs, ss, runs, progress, child, alloc,
                   result, ret, warned, resultFormat>>

\* lines 266-268
HandleFailure ==
    /\ pc = "returned"
    /\ ~The(ret).success
    /\ ss' = [ss EXCEPT !.processed_result = None]
    /\ outcome' = "failed"
    /\ pc' = "done"
    /\ UNCHANGED <<now, tempDir, inputs, dirs, runs, progress, child, alloc, result,
                   ret, warned>>
    /\ resultFormat' = None

\* What cleanup_temp_files leaves behind is [files, warned]: the file system
\* after the call and whether st.warning was shown.

ReleaseFileUnchecked(files, path, unlinkOk) ==
    IF path \in files /\ unlinkOk
    THEN [files |-> files \ {path}, warned |-> FALSE]
    ELSE [files |-> files, warned |-> TRUE]

\* cleanup_temp_files on a file path (lines 33-34, 39-42); unlinkOk: unlink
\* does not raise
ReleaseFile(files, path, unlinkOk) ==
    IF path \in files
    THEN IF unlinkOk
         THEN [files |-> files \ {path}, warned |-> FALSE]
         ELSE [files |-> files, warned |-> TRUE]
    ELSE [files |-> files, warned |-> FALSE]

\* cleanup_temp_files on a directory (lines 33-38, 41-42).  gone: the children
\* unlinked before anything raised; ok: nothing raised.
ReleaseDir(ds, t, gone, ok) ==
    IF ds[t] # None
    THEN IF ok
         THEN [files |-> [ds EXCEPT ![t] = None], warned |-> FALSE]
         ELSE [files |-> [ds EXCEPT ![t] = Some(The(@) \ gone)], warned |-> TRUE]
    ELSE [files |-> ds, warned |-> FALSE]

\* the outcomes of releasing the directory t: nothing raises, or what raises is
\* the first unlink (gone = {}) or rmdir (gone = all)
DirFaults(ds, t) ==
    IF ds[t] # None
    THEN {<<The(ds[t]), TRUE>>, <<{}, FALSE>>, <<The(ds[t]), FALSE>>}
    ELSE {<<{}, TRUE>>}

FileFaults(files, path) == IF path \in files THEN BOOLEAN ELSE {TRUE}

CleanupInputRaises(unlinkOk) ==
    /\ pc = "cleanup_input"
    /\ unlinkOk \in FileFaults(inputs, JobPath)
    /\ inputs' = ReleaseFile(inputs, JobPath, unlinkOk).files
    /\ IF ReleaseFile(inputs, JobPath, unlinkOk).warned
       THEN /\ ss' = [ss EXCEPT !.processed_result = None]
            /\ outcome' = "read_failed"
            /\ pc' = "done"
       ELSE /\ pc' = "cleanup_output"
            /\ UNCHANGED <<ss, outcome>>
    /\ UNCHANGED <<now, tempDir, dirs, runs, progress, child, alloc, result, ret, warned, resultFormat>>

\* line 259
CleanupInput(unlinkOk) ==
    /\ pc = "cleanup_input"
    /\ unlinkOk \in FileFaults(inputs, JobPath)
    /\ LET r == ReleaseFile(inputs, JobPath, unlinkOk)
       IN  /\ inputs' = r.files
           /\ warned' = (warned \/ r.warned)
    /\ pc' = "cleanup_output"
    /\ UNCHANGED <<now, tempDir, dirs, ss, runs, progress, child, alloc, result, ret,
                   outcome, resultFormat>>

\* lines 260-262
CleanupOutput(gone, ok) ==
    /\ pc = "cleanup_output"
    /\ LET t == The(The(ret).output_dir)
           r == ReleaseDir(dirs, t, gone, ok)
       IN  /\ <<gone, ok>> \in DirFaults(dirs, t)
           /\ dirs' = r.files
           /\ warned' = (warned \/ r.warned)
    /\ outcome' = "success"
    /\ pc' = "done"
    /\ UNCHANGED <<now, tempDir, inputs, ss, runs, progress, child, alloc, result, ret, resultFormat>>

\* ------------------------------------------------------------------- Next

Entries == {[name |-> n, bytes |-> b] : n \in OutNames, b \in Contents}

Next ==
    \/ Tick
    \/ \E upload \in {None} \cup {Some(n) : n \in UploadNames},
          pasted \in BOOLEAN, saveOk \in BOOLEAN,
          fmt \in SelectedFormats, click \in BOOLEAN :
            Rerun(upload, pasted, saveOk, fmt, click)
    \/ StartEngine
    \/ SpawnFails
    \/ \E run \in EngineRuns : EngineExits(run[1], run[2])
    \/ \E out \in PartialOutputs : Timeout(out)
    \/ ReadResult
    \/ ReadFails
    \/ HandleFailure
    \/ \E unlinkOk \in BOOLEAN : CleanupInput(unlinkOk)
    \/ \E gone \in SUBSET Entries, ok \in BOOLEAN : CleanupOutput(gone, ok)

Spec == Init /\ [][Next]_vars

\* ------------------------------------------- cleanup_temp_files on its own

\* cleanup_temp_files called on any path, any number of times, starting from
\* a TEMP_DIR that holds every input artifact and every output directory with
\* a file in it.  pc tells whether the path of the last call existed.

ReleasePaths == {[ts |-> t, name |-> n] : t \in Timestamps, n \in UploadNames}

InitRelease ==
    /\ now = 0
    /\ tempDir = TRUE
    /\ inputs = ReleasePaths
    /\ dirs = [t \in Timestamps |-> Some({[name |-> AMd, bytes |-> <<"A">>]})]
    /\ ss = [processed_result |-> None, input_image_path |-> None,
             original_filename |-> None, output_format |-> "md"]
    /\ pc = "release"
    /\ runs = 0
    /\ progress = Job0.progress
    /\ child = Job0.child
    /\ alloc = Job0.alloc
    /\ result = Job0.result
    /\ ret = Job0.ret
    /\ outcome = Job0.outcome
    /\ warned = FALSE
    /\ resultFormat = None

ReleaseInputPath(path, unlinkOk) ==
    /\ unlinkOk \in FileFaults(inputs, path)
    /\ LET r == ReleaseFile(inputs, path, unlinkOk)
       IN  /\ inputs' = r.files
           /\ warned' = r.warned
    /\ pc' = IF path \in inputs THEN "released_present" ELSE "released_absent"
    /\ UNCHANGED <<now, tempDir, dirs, ss, runs, progress, child, alloc, result, ret,
                   outcome, resultFormat>>

ReleaseOutputDir(t, gone, ok) ==
    /\ <<gone, ok>> \in DirFaults(dirs, t)
    /\ LET r == ReleaseDir(dirs, t, gone, ok)
       IN  /\ dirs' = r.files
           /\ warned' = r.warned
    /\ pc' = IF dirs[t] # None THEN "released_present" ELSE "released_absent"
    /\ UNCHANGED <<now, tempDir, inputs, ss, runs, progress, child, alloc, result, ret,
                   outcome, resultFormat>>

NextRelease ==
    \/ \E path \in ReleasePaths, unlinkOk \in BOOLEAN : ReleaseInputPath(path, unlinkOk)
    \/ \E t \in Timestamps, gone \in SUBSET Entries, ok \in BOOLEAN :
            ReleaseOutputDir(t, gone, ok)

SpecRelease == InitRelease /\ [][NextRelease]_vars

\* ----------------------------------------------------------------- claims

\* run_yomitoku has returned to the Execute handler
AfterReturn == pc \in {"returned", "cleanup_input", "cleanup_output", "done"}

JobInput == The(ss.input_image_path)

FileNames(files) == {e.name : e \in files}

BeforeInOrder(x, y) ==
    \E i, j \in 1..Len(Stems) : Stems[i] = x.stem /\ Stems[j] = y.stem /\ i < j

TimeoutMessage == "Processing timeout (exceeded 5 minutes)"

\* C1: when the Execute handler has returned, on every exit path, neither the
\* job's input artifact nor the output directory run_yomitoku allocated exists.
C1_CleanedOnEveryExit ==
    pc = "done" => (JobInput \notin inputs /\ dirs[The(alloc)] = None)

\* C2: every return of run_yomitoku hands the output directory it allocated
\* back to the caller.
C2_OutputDirReturned ==
    pc = "returned" => The(ret).output_dir = alloc

\* C3: when the time budget runs out the child is killed and run_yomitoku
\* returns the timeout error; once run_yomitoku has returned, no child of that
\* call is running.
C3_NoChildAfterReturn ==
    /\ AfterReturn => child # "running"
    /\ child = "killed" <=> (AfterReturn /\ ret = Some(Failure(TimeoutMessage)))

C3_Witness == pc = "returned" /\ child = "killed"

\* C4 as stated: the stored result is exactly the contents of the output file,
\* and after the cleanup step of a successful job the output file and the
\* input artifact are gone.
C4_ExactContentAndCleaned ==
    /\ pc = "cleanup_input" =>
           ss.processed_result =
               Some(BytesOf(The(dirs[The(alloc)]), The(The(ret).output_file)))
    /\ (pc = "done" /\ outcome = "success") =>
           (JobInput \notin inputs /\ dirs[The(alloc)] = None)

IsLineEnd(c) == c \in {"CR", "LF"}
IsNotLineEnd(c) == ~IsLineEnd(c)

\* C4 amended: the stored result is the text of the file run_yomitoku selected
\* with its line ends read as "\n" (the same characters in the same order
\* between line ends, no "\r" left, nothing changed in a file without "\r"),
\* and after the cleanup step of a successful job that showed no cleanup
\* warning the output directory and the input artifact are gone.
C4_TextContentAndCleaned ==
    /\ pc = "cleanup_input" =>
           LET bytes == BytesOf(The(dirs[The(alloc)]), The(The(ret).output_file))
               text == The(ss.processed_result)
           IN  /\ ss.processed_result # None
               /\ \A i \in 1..Len(text) : text[i] # "CR"
               /\ SelectSeq(text, IsNotLineEnd) = SelectSeq(bytes, IsNotLineEnd)
               /\ (\A i \in 1..Len(bytes) : bytes[i] # "CR") => text = bytes
               /\ (bytes = <<"CR", "LF">>) => text = <<"LF">>
    /\ (pc = "done" /\ outcome = "success" /\ ~warned) =>
           (JobInput \notin inputs /\ dirs[The(alloc)] = None)

C4_Witness ==
    /\ pc = "done" /\ outcome = "success" /\ ~warned
    /\ ss.processed_result = Some(<<"LF">>)
    /\ JobInput \notin inputs /\ dirs[The(alloc)] = None

\* C5: when the engine exits with a non-zero status run_yomitoku returns a
\* failure whose message is the captured stderr, or the generic message when
\* stderr is empty; never success.
C5_EngineFailure ==
    (AfterReturn /\ result # None /\ The(result).returncode # 0) =>
        /\ ~The(ret).success
        /\ The(result).stderr # "" => The(ret).error_msg = Some(The(result).stderr)
        /\ The(result).stderr = "" =>
               The(ret).error_msg = Some("Unknown error occurred")

C5_Witness ==
    /\ pc = "returned" /\ result # None
    /\ The(result).returncode = 1 /\ The(result).stderr = ""
    /\ The(ret).error_msg = Some("Unknown error occurred")

\* C6: when the engine exits with status zero and the output directory holds
\* no file with the requested extension, run_yomitoku returns the no-output
\* failure; it returns success only if such a file is in the output directory.
C6_NoOutputProduced ==
    pc = "returned" =>
        LET matching == {e \in The(dirs[The(alloc)]) : e.name.ext = ss.output_format}
        IN  /\ (result # None /\ The(result).returncode = 0 /\ matching = {}) =>
                   ret = Some(Failure("No output file generated"))
            /\ The(ret).success =>
                   \E e \in matching : The(ret).output_file = Some(e.name)

C6_Witness ==
    /\ pc = "returned" /\ result # None /\ The(result).returncode = 0
    /\ The(dirs[The(alloc)]) # {}
    /\ ret = Some(Failure("No output file generated"))

\* C7: of several files with the requested extension run_yomitoku selects the
\* first in lexicographic order, whatever order the directory lists them in.
C7_LexicographicallyFirst ==
    (pc = "returned" /\ The(ret).success) =>
        \A n \in Glob(The(dirs[The(alloc)]), ss.output_format) :
            ~BeforeInOrder(n, The(The(ret).output_file))

\* C8: the progress values of a job are non-decreasing and end at 1.0 exactly
\* when the job succeeded; a job whose output file could not be read never
\* reports 1.0.
C8_CompleteIffSucceeded ==
    pc = "done" =>
        /\ \A i, j \in 1..Len(progress) : i < j => progress[i] <= progress[j]
        /\ (progress # <<>> /\ progress[Len(progress)] = 10) <=> outcome = "success"

StrictlyIncreasing(s) == \A i, j \in 1..Len(s) : i < j => s[i] < s[j]

\* C9: the progress values of a job are strictly increasing, and none is
\* reported after run_yomitoku has returned.
C9_ProgressOrdered ==
    /\ [](StrictlyIncreasing(progress))
    /\ [][(AfterReturn /\ pc' \in {"returned", "cleanup_input", "cleanup_output", "done"})
              => progress' = progress]_vars

C9_Witness == pc = "done" /\ progress = <<2, 8, 10>>

\* a step that removes an input artifact, an output directory or a file in one
Releases ==
    \/ inputs \ inputs' # {}
    \/ \E t \in Timestamps :
           /\ dirs[t] # None
           /\ \/ dirs'[t] = None
              \/ FileNames(The(dirs[t])) \ FileNames(The(dirs'[t])) # {}

\* C10: an input artifact or output directory is released only after the
\* job's result has been read into memory.
C10_ReleaseAfterRead ==
    [][Releases => (outcome = "read" /\ ss.processed_result # None)]_vars

C10_Witness ==
    /\ pc = "done" /\ outcome = "success" /\ ss.processed_result # None
    /\ JobInput \notin inputs /\ dirs[The(alloc)] = None

\* a step that allocates run_yomitoku's output directory
Allocates == pc = "run" /\ pc' \in {"wait", "returned"}

\* C11: the output directory of every job is fresh and empty when it is
\* allocated, also for jobs started within the same clock second, and saving
\* an input artifact never overwrites an existing file.
C11_NoCollision ==
    [][/\ Allocates => dirs[now] = None
       /\ \A upload \in {None} \cup {Some(n) : n \in UploadNames},
             pasted \in BOOLEAN, fmt \in SelectedFormats, click \in BOOLEAN :
              LET name == IF upload # None THEN upload
                          ELSE IF pasted THEN Some(PastedName) ELSE None
              IN  (name # None /\ Rerun(upload, pasted, TRUE, fmt, click)) =>
                      [ts |-> now, name |-> The(name)] \notin inputs]_vars

\* names whose lowercased extension is outside SUPPORTED_FORMATS: "w.xyz",
\* "png" (no extension), "a.png.x"
UnsupportedNames ==
    { <<"w",".","x","y","z">>, <<"p","n","g">>, <<"a",".","p","n","g",".","x">> }

\* C12: validate_file_format is false for every path whose lowercased
\* extension is not a supported format, and run_yomitoku is never invoked, nor
\* an engine spawned, on such a path or on a path that does not exist.
C12_OnlySupportedInputsRun ==
    /\ \A n \in UnsupportedNames, t \in Timestamps :
           ~validate_file_format([ts |-> t, name |-> n])
    /\ (pc \in {"run", "wait"} \/ child = "running") =>
           /\ ss.input_image_path # None
           /\ JobInput \in inputs
           /\ JobInput.name \notin UnsupportedNames

C12_Witness ==
    /\ pc = "idle" /\ ss.input_image_path # None
    /\ JobInput \in inputs /\ JobInput.name \in UnsupportedNames

\* C13: cleanup_temp_files on a path that has already been removed, file or
\* directory, changes nothing on disk and shows no warning.
C13_ReleaseIdempotent ==
    [][pc' = "released_absent" =>
           (inputs' = inputs /\ dirs' = dirs /\ ~warned')]_vars

C13_Witness ==
    /\ pc = "released_absent" /\ ~warned
    /\ inputs = {} /\ \A t \in Timestamps : dirs[t] = None

\* C14: a failed release after a successful job is only warned about: the
\* other release is still made, the result stays stored and the job ends as a
\* success.
C14_CleanupFailureNotFatal ==
    /\ [](warned => /\ pc \in {"cleanup_output", "done"}
                    /\ outcome \in {"read", "success"}
                    /\ ss.processed_result # None)
    /\ [](pc = "done" /\ outcome # "success" => ~warned)
    /\ [][/\ pc = "cleanup_input" => pc' = "cleanup_output" /\ ss' = ss
          /\ pc = "cleanup_output" =>
                 /\ pc' = "done" /\ outcome' = "success" /\ ss' = ss
                 /\ \/ dirs'[The(alloc)] = None
                    \/ warned']_vars

\* the input artifact could not be removed, the output directory was
C14_Witness ==
    /\ pc = "done" /\ outcome = "success" /\ warned
    /\ ss.processed_result # None
    /\ JobInput \in inputs /\ dirs[The(alloc)] = None

\* C15: an input artifact is used by one job at most: the job that follows a
\* completed job, succeeded or failed, does not run on the same artifact path.
C15_InputUsedOnce ==
    [][(pc = "done" /\ pc' = "run") =>
           ss'.input_image_path # ss.input_image_path]_vars

\* C16: the 0.8 notification comes only after the exit status was found to be
\* zero: a job whose engine exits non-zero has reported 0.2 and nothing else.
C16_NoProgressOnEngineFailure ==
    (AfterReturn /\ result # None /\ The(result).returncode # 0) =>
        progress = <<2>>

\* The right column (lines 278-295) shows a result: the script run has ended
\* and session_state.processed_result is truthy.
Presented == pc \in {"idle", "done"} /\ ss.processed_result # None

\* C17: whenever a result is presented, the format tag used for the download
\* label, the download file name and the display (session_state.output_format)
\* is the output format that was requested for the job which produced the
\* stored result.
C17_FormatTagIsJobFormat ==
    Presented => resultFormat = Some(ss.output_format)

\* C18: after the Execute handler completes, processed_result is non-null
\* exactly when the job it ran succeeded and its output file was read; a job
\* that fails, or whose output cannot be read, clears the result an earlier
\* job left.
C18_ResultIffJobSucceeded ==
    /\ [](pc = "done" => (ss.processed_result # None <=> outcome = "success"))
    /\ [][(pc = "returned" /\ pc' = "done") =>
              (outcome' \in {"failed", "read_failed"} /\ ss'.processed_result = None)]_vars

\* run_yomitoku has returned a failure while the session still holds the
\* result of an earlier job
C18_Witness ==
    /\ pc = "returned"
    /\ ~The(ret).success
    /\ ss.processed_result # None

\* C19: every tuple run_yomitoku returns is well formed. With success, the
\* output file and the output directory are given, the file is an entry of
\* that directory and there is no error message; without success, the output
\* file and the output directory are null and the error message is a
\* non-empty string.
C19_ReturnWellFormed ==
    ret # None =>
        LET r == The(ret)
        IN  IF r.success
            THEN /\ r.output_file # None
                 /\ r.output_dir # None
                 /\ r.error_msg = None
                 /\ pc = "returned" =>
                        /\ dirs[The(r.output_dir)] # None
                        /\ The(r.output_file) \in FileNames(The(dirs[The(r.output_dir)]))
            ELSE /\ r.output_file = None
                 /\ r.output_dir = None
                 /\ r.error_msg # None
                 /\ The(r.error_msg) # ""

\* the engine ran to a zero exit status and left no file of the format
C19_Witness ==
    /\ pc = "returned"
    /\ ~The(ret).success
    /\ result # None
    /\ The(result).returncode = 0
    /\ The(ret).error_msg = Some("No output file generated")

====
